---- MODULE Spec2Model ----
(***************************************************************************)
(* A model of the errgonomic crate (DenisGorbachev/error-handling-rs):     *)
(*   - Prefixer, the line-prefixing io::Write adapter                      *)
(*     (src/src/types/prefixer.rs);                                        *)
(*   - the error-trace renderer writeln_error_to_formatter and the         *)
(*     Display impl of ErrVec (src/src/functions/writeln_error.rs,         *)
(*     src/src/types/err_vec.rs);                                          *)
(*   - the report functions writeln_error_to_writer_and_file and           *)
(*     eprintln_error (src/src/functions/writeln_error.rs,                 *)
(*     src/src/functions/write_to_named_temp_file.rs);                     *)
(*   - the exit-code mappers (src/src/functions/exit_result.rs);           *)
(*   - partition_result and the handle_iter! family of macros              *)
(*     (src/src/functions/partition_result.rs, src/src/macros.rs).         *)
(*                                                                         *)
(* Byte strings are sequences of one-character strings; NL is b'\n'.       *)
(***************************************************************************)
EXTENDS Integers, Sequences, FiniteSets, TLC

VARIABLES
    prefixers,  \* the stack of Prefixer structs: prefixers[1] is the one the
                \* caller writes to, prefixers[i].writer is prefixers[i+1],
                \* and the last one's writer is the sink
    sink,       \* the bytes the wrapped (outermost) sink has received
    input,      \* the concatenation of the buffers of the calls that returned Ok
    hist,       \* history: bytes submitted so far, whether a call has failed,
                \* how often the write_all of first_line_prefix returned Ok,
                \* whether that of any prefix did, what the last Ok one wrote
    last,       \* the last call on prefixers[1] and what it returned
    error,      \* the error value handed to the renderer
    out,        \* the text the renderer has written to the Formatter
    rpc,        \* the renderer's position: "start", then which Display ran
    form,       \* which exit-code mapper runs: "result", "iterator", "stream"
    results,    \* the Result(s) handed to it, in order
    pulled,     \* how many of them it has taken from the iterator or stream
    reported,   \* the errors handed to eprintln_error, in order
    exit_code,  \* the ExitCode returned, "none" before the return
    epc,        \* the mapper's position
    env,        \* what the surroundings of a report do: which write to the
                \* primary destination fails, how persisting ends
    report,     \* what a report has written, persisted and returned
    ppc,        \* the report's position: "start", then which function ran
    call,       \* a collecting function or macro and its arguments
    acc,        \* the accumulator of its fold and the number of items folded
    outcome,    \* what it returned or evaluated to
    cpc,        \* its position: "into_iter", "fold", "returned"
    ufn,        \* fmt or get_root_source, whichever was called
    uarg,       \* its argument
    ures,       \* fmt: what it returned; get_root_source: the local `source`
    upc,        \* its position: "start", "loop", "returned"
    ffail,      \* the write_str on the Formatter that fails (0: none does)
    fres        \* what rendering into that Formatter returned

prefixerVars == <<prefixers, sink, input, hist, last>>

renderVars == <<error, out, rpc>>

exitVars == <<form, results, pulled, reported, exit_code, epc>>

reportVars == <<env, report, ppc>>

collectVars == <<call, acc, outcome, cpc>>

utilVars == <<ufn, uarg, ures, upc>>

fmtVars == <<ffail, fres>>

vars == <<prefixers, sink, input, hist, last, error, out, rpc,
          form, results, pulled, reported, exit_code, epc,
          env, report, ppc, call, acc, outcome, cpc,
          ufn, uarg, ures, upc, ffail, fres>>

----------------------------------------------------------------------------
(* Bounds *)

\* the longest buffer handed to one Prefixer::write call
MaxBuf == 2
\* the total number of bytes submitted to a Prefixer over its lifetime
MaxInput == 3
\* the sink write (1-based, within one Prefixer::write call) that may fail
MaxFailAt == 4
\* the most bytes a failing write_all has already pushed into the sink
MaxPartial == 1
\* the most nodes (chain links and ErrVecs) of a rendered error value
MaxNodes == 5
\* the most Results an iterator or a stream yields
MaxResults == 3
\* the most nodes of an error value handed to the report functions
MaxReportNodes == 3
\* the most tokens of a text an impl of fmt's argument type writes
MaxText == 2
\* the latest write_str on a Formatter that may fail
MaxFormatterWrites == 6

----------------------------------------------------------------------------
(* Byte strings *)

NL == "\n"

Bytes == {"a", "b", NL}

Min(a, b) == IF a < b THEN a ELSE b

\* all byte strings over S of length 0..n
SeqsUpTo(S, n) == UNION {[1..k -> S] : k \in 0..n}

\* buf[from..to) with the source's 0-based, half-open indices
Slice(buf, from, to) == SubSeq(buf, from + 1, to)

RECURSIVE Concat(_)
Concat(ss) == IF ss = <<>> THEN <<>> ELSE Head(ss) \o Concat(Tail(ss))

----------------------------------------------------------------------------
(* Prefixer: src/src/types/prefixer.rs *)

\* the prefixes a Prefixer is built with; error_prefixer uses "  * " and
\* "    " (writeln_error.rs:121), shortened here to two bytes each
FirstPrefixes == {<<>>, <<"*", " ">>}
NextPrefixes == {<<>>, <<" ", " ">>}

\* Prefixer::new
Prefixer_new(first_line_prefix, next_line_prefix) ==
    [first_line_prefix |-> first_line_prefix,
     next_line_prefix |-> next_line_prefix,
     is_first_line |-> TRUE,
     needs_prefix |-> TRUE]

\* mutant: the first-line prefix is used for every line
SelectPrefix_AlwaysFirst(p) == [which |-> "first", bytes |-> p.first_line_prefix]

\* let prefix = if self.is_first_line { first } else { next }
SelectPrefix(p) ==
    IF p.is_first_line THEN [which |-> "first", bytes |-> p.first_line_prefix]
    ELSE [which |-> "next", bytes |-> p.next_line_prefix]

\* mutant: is_first_line is left set after the prefix was written
AfterPrefix_KeepFirst(p) == [p EXCEPT !.needs_prefix = FALSE]

\* mutant: needs_prefix is left set after the prefix was written
AfterPrefix_KeepNeeds(p) == [p EXCEPT !.is_first_line = FALSE]

\* self.is_first_line = false; self.needs_prefix = false;
AfterPrefix(p) == [p EXCEPT !.is_first_line = FALSE, !.needs_prefix = FALSE]

\* mutant: the flags are updated before the prefix write instead of after it
OnPrefixError_FlagsFirst(p) ==
    [p EXCEPT !.is_first_line = FALSE, !.needs_prefix = FALSE]

\* self.writer.write_all(prefix.as_bytes())? returning early: the two
\* assignments after it have not run
OnPrefixError(p) == p

\* self.needs_prefix = true, after a segment that ends in '\n'
AfterLine(p) == [p EXCEPT !.needs_prefix = TRUE]

\* buf[start..].iter().position(|&b| b == b'\n'): the relative index of the
\* first '\n' at or after start, -1 for None
Position(buf, start) ==
    LET hits == {i \in start..(Len(buf) - 1) : buf[i + 1] = NL}
    IN  IF hits = {} THEN -1
        ELSE (CHOOSE i \in hits : \A j \in hits : i <= j) - start

\* The wrapped sink's write_all (std's default write_all over a sink whose
\* write may fail): an empty buffer makes no write call and cannot fail; the
\* failAt-th non-empty write_all of the current call fails after `partial`
\* bytes (fewer than all of them) have reached the sink.
\* w = [stack, out, n]: n counts the sink write_all calls with a non-empty
\* buffer made so far in the current call.
SinkWriteAll(w, bytes, failAt, partial) ==
    IF bytes = <<>> THEN [w |-> w, ok |-> TRUE]
    ELSE IF w.n + 1 = failAt
         THEN [w |-> [w EXCEPT !.out = @ \o SubSeq(bytes, 1, Min(partial, Len(bytes) - 1)),
                                !.n = @ + 1],
               ok |-> FALSE]
         ELSE [w |-> [w EXCEPT !.out = @ \o bytes, !.n = @ + 1], ok |-> TRUE]

RECURSIVE WriteAll(_, _, _, _)
RECURSIVE WriteLoop(_, _, _, _, _, _)
RECURSIVE PrefixerWrite(_, _, _, _)

\* the while loop of Prefixer::write, from `start` on; p is self, w its
\* writer.  Returns self, the writer, and the io::Result (ok, n), with
\* `failed` naming the write_all whose `?` returned: that of the "first" or
\* the "next" line's prefix, or that of a "content" segment, and `sent`
\* listing the write_all calls of this call that returned Ok, in order.
WriteLoop(p, w, buf, start, failAt, partial) ==
    IF ~(start < Len(buf))
    THEN [p |-> p, w |-> w, ok |-> TRUE, n |-> Len(buf), failed |-> "none",
          sent |-> <<>>]
    ELSE
      LET r1 == IF p.needs_prefix
                THEN WriteAll(w, SelectPrefix(p).bytes, failAt, partial)
                ELSE [w |-> w, ok |-> TRUE]
      IN  IF ~r1.ok
          THEN [p |-> OnPrefixError(p), w |-> r1.w, ok |-> FALSE, n |-> 0,
                failed |-> SelectPrefix(p).which, sent |-> <<>>]
          ELSE
            LET p1 == IF p.needs_prefix THEN AfterPrefix(p) ELSE p
                s1 == IF p.needs_prefix THEN <<SelectPrefix(p).which>> ELSE <<>>
                relative_idx == Position(buf, start)
                end == IF relative_idx >= 0 THEN start + relative_idx + 1
                       ELSE Len(buf)
                r2 == WriteAll(r1.w, Slice(buf, start, end), failAt, partial)
            IN  IF ~r2.ok
                THEN [p |-> p1, w |-> r2.w, ok |-> FALSE, n |-> 0,
                      failed |-> "content", sent |-> s1]
                ELSE LET r == WriteLoop(IF relative_idx >= 0 THEN AfterLine(p1) ELSE p1,
                                        r2.w, buf, end, failAt, partial)
                     IN  [r EXCEPT !.sent = s1 \o <<"content">> \o @]

\* mutant: the prefix is written before the empty-buffer check
PrefixerWrite_EagerPrefix(ws, buf, failAt, partial) ==
    LET p == ws.stack[1]
        w == [ws EXCEPT !.stack = Tail(@)]
        r1 == IF p.needs_prefix
              THEN WriteAll(w, SelectPrefix(p).bytes, failAt, partial)
              ELSE [w |-> w, ok |-> TRUE]
        p1 == IF p.needs_prefix /\ r1.ok THEN AfterPrefix(p) ELSE p
        r == IF r1.ok THEN WriteLoop(p1, r1.w, buf, 0, failAt, partial)
             ELSE [p |-> p, w |-> r1.w, ok |-> FALSE, n |-> 0,
                   failed |-> SelectPrefix(p).which, sent |-> <<>>]
    IN  [ws |-> [r.w EXCEPT !.stack = <<r.p>> \o @],
         ok |-> r.ok, n |-> r.n, failed |-> r.failed,
         sent |-> (IF p.needs_prefix /\ r1.ok THEN <<SelectPrefix(p).which>> ELSE <<>>)
                  \o r.sent]

\* mutant: needs_prefix is not carried from one call to the next
PrefixerWrite_Stateless(ws, buf, failAt, partial) ==
    IF buf = <<>> THEN [ws |-> ws, ok |-> TRUE, n |-> 0, failed |-> "none",
                        sent |-> <<>>]
    ELSE LET r == WriteLoop([ws.stack[1] EXCEPT !.needs_prefix = TRUE],
                            [ws EXCEPT !.stack = Tail(@)], buf, 0, failAt, partial)
         IN  [ws |-> [r.w EXCEPT !.stack = <<r.p>> \o @],
              ok |-> r.ok, n |-> r.n, failed |-> r.failed, sent |-> r.sent]

\* <Prefixer as Write>::write on ws.stack[1], whose writer is the rest of ws
PrefixerWrite(ws, buf, failAt, partial) ==
    IF buf = <<>> THEN [ws |-> ws, ok |-> TRUE, n |-> 0, failed |-> "none",
                        sent |-> <<>>]
    ELSE LET r == WriteLoop(ws.stack[1], [ws EXCEPT !.stack = Tail(@)],
                            buf, 0, failAt, partial)
         IN  [ws |-> [r.w EXCEPT !.stack = <<r.p>> \o @],
              ok |-> r.ok, n |-> r.n, failed |-> r.failed, sent |-> r.sent]

\* mutant: a nested Prefixer writes to the sink itself, not to its writer
WriteAll_SkipWriter(w, bytes, failAt, partial) ==
    SinkWriteAll(w, bytes, failAt, partial)

\* self.writer.write_all(bytes): the writer is the sink when no Prefixer is
\* left on the stack, else the next Prefixer, driven by std's default
\* write_all (no write call for an empty buffer; Prefixer::write returns
\* Ok(buf.len()), so one call writes it all; an error is returned as is)
WriteAll(w, bytes, failAt, partial) ==
    IF bytes = <<>> THEN [w |-> w, ok |-> TRUE]
    ELSE IF w.stack = <<>> THEN SinkWriteAll(w, bytes, failAt, partial)
    ELSE LET r == PrefixerWrite(w, bytes, failAt, partial)
         IN  [w |-> r.ws, ok |-> r.ok]

----------------------------------------------------------------------------
(* Spec: one Prefixer over a sink whose writes and flushes may fail *)

\* nothing submitted, no call failed, no write_all of prefixers[1] returned
\* Ok yet
NoHist == [bytes |-> 0, failed |-> FALSE, firsts |-> 0, prefixed |-> FALSE,
           tail |-> "none"]

NoCall == [op |-> "new", len |-> 0, ok |-> TRUE, n |-> 0, attempts |-> 0,
           failAt |-> 0, failed |-> "none", flushes |-> 0]

\* no Prefixer is in use
PrefixerIdle ==
    /\ prefixers = <<>> /\ sink = <<>> /\ input = <<>>
    /\ hist = NoHist /\ last = NoCall

\* no error is being rendered
RenderIdle == error = <<>> /\ out = <<>> /\ rpc = "idle"

\* no exit-code mapper runs
ExitIdle ==
    /\ form = "none" /\ results = <<>> /\ pulled = 0 /\ reported = <<>>
    /\ exit_code = "none" /\ epc = "idle"

\* nothing is being reported
NoEnv == [wfail |-> 0, partial |-> FALSE, persist |-> "Ok", fallback_fails |-> FALSE]

NoReport == [primary |-> <<>>, blob |-> <<>>, ret |-> [ok |-> TRUE, err |-> "none"],
             events |-> <<>>, panicked |-> FALSE]

ReportIdle == env = NoEnv /\ report = NoReport /\ ppc = "idle"

\* nothing is being collected
NoCollect == [fn |-> "none", results |-> <<>>, items |-> <<>>]

EmptyAcc == [idx |-> 0, oks |-> <<>>, items |-> <<>>, errors |-> <<>>]

NoOutcome == [kind |-> "none", oks |-> <<>>, items |-> <<>>, errors |-> <<>>]

CollectIdle == call = NoCollect /\ acc = EmptyAcc /\ outcome = NoOutcome /\ cpc = "idle"

\* neither fmt nor get_root_source is called
UtilIdle == ufn = "none" /\ uarg = <<>> /\ ures = <<>> /\ upc = "idle"

\* no Formatter that may fail is rendered into
FmtIdle == ffail = 0 /\ fres = "none"

PrefixerInit(depth) ==
    /\ UtilIdle
    /\ FmtIdle
    /\ RenderIdle
    /\ ExitIdle
    /\ ReportIdle
    /\ CollectIdle
    /\ prefixers \in [1..depth -> {Prefixer_new(f, n) : f \in FirstPrefixes, n \in NextPrefixes}]
    /\ sink = <<>>
    /\ input = <<>>
    /\ hist = NoHist
    /\ last = NoCall

\* a call prefixers[1].write(buf); failAt = 0 means the sink never fail
DoWrite(buf, failAt, partial) ==
    /\ hist.bytes + Len(buf) <= MaxInput
    /\ LET r == PrefixerWrite([stack |-> prefixers, out |-> sink, n |-> 0],
                              buf, failAt, partial)
       IN  /\ prefixers' = r.ws.stack
           /\ sink' = r.ws.out
           /\ input' = IF r.ok THEN input \o buf ELSE input
           /\ hist' = [bytes |-> hist.bytes + Len(buf),
                       failed |-> hist.failed \/ ~r.ok,
                       firsts |-> hist.firsts
                           + Cardinality({i \in DOMAIN r.sent : r.sent[i] = "first"}),
                       prefixed |-> hist.prefixed
                           \/ \E i \in DOMAIN r.sent : r.sent[i] # "content",
                       tail |-> IF r.sent = <<>> THEN hist.tail
                                ELSE r.sent[Len(r.sent)]]
           /\ last' = [op |-> "write", len |-> Len(buf), ok |-> r.ok, n |-> r.n,
                       attempts |-> r.ws.n, failAt |-> failAt,
                       failed |-> r.failed, flushes |-> 0]
    /\ UNCHANGED <<renderVars, exitVars, reportVars, collectVars, utilVars, fmtVars>>

Write ==
    \E buf \in SeqsUpTo(Bytes, MaxBuf), failAt \in 0..MaxFailAt, partial \in 0..MaxPartial :
        DoWrite(buf, failAt, partial)

\* Prefixer::flush: self.writer.flush(), down to the sink, whose flush may fail
Flush ==
    \E fails \in BOOLEAN :
        /\ last' = [NoCall EXCEPT !.op = "flush", !.ok = ~fails, !.flushes = 1]
        /\ hist' = [hist EXCEPT !.failed = @ \/ fails]
        /\ UNCHANGED <<prefixers, sink, input>>
        /\ UNCHANGED <<renderVars, exitVars, reportVars, collectVars, utilVars, fmtVars>>

Init == PrefixerInit(1)

Next == Write \/ Flush

Spec == Init /\ [][Next]_vars

\* SpecNested: a Prefixer writing into a Prefixer writing into a sink whose
\* writes never fail (Prefixer::writer is any dyn Write, so also a Prefixer)
InitNested == PrefixerInit(2)

NestedWrite == \E buf \in SeqsUpTo(Bytes, MaxBuf) : DoWrite(buf, 0, 0)

NextNested == NestedWrite \/ Flush

SpecNested == InitNested /\ [][NextNested]_vars

----------------------------------------------------------------------------
(* Properties of Prefixer *)

\* the Prefixer the caller writes to
P == prefixers[1]

\* what a single write call of s through freshly built Prefixers with the
\* same prefixes sends to a sink that never fails
SingleWrite(s) ==
    PrefixerWrite([stack |-> [i \in DOMAIN prefixers |->
                                Prefixer_new(prefixers[i].first_line_prefix,
                                             prefixers[i].next_line_prefix)],
                   out |-> <<>>, n |-> 0], s, 0, 0).ws.out

\* s with `first` inserted before its first byte and `next` inserted after
\* every '\n' that is followed by a further byte
Prefixed(first, next, s) ==
    Concat([i \in 1..Len(s) |->
              (IF i = 1 THEN first ELSE IF s[i - 1] = NL THEN next ELSE <<>>)
              \o <<s[i]>>])

\* C1: on a sink that never fails, the bytes the sink holds after writing s
\* in any number of chunks are the bytes a single write of s produces.
C1_ChunkInvariant == ~hist.failed => sink = SingleWrite(input)

\* three bytes written in at least two calls, the last call starting right
\* after a '\n' that ended the call before it
C1_Witness ==
    /\ ~hist.failed /\ Len(input) = 3 /\ input[2] = NL
    /\ last.op = "write" /\ last.len = 1
    /\ P.first_line_prefix # <<>> /\ P.next_line_prefix # <<>>

\* C2: after successful writes the sink holds every input byte in order,
\* with first_line_prefix before the first line and next_line_prefix before
\* every later line (also one that is only '\n'), and no prefix after a
\* final '\n'.
C2_LinesPrefixed ==
    ~hist.failed => sink = Prefixed(P.first_line_prefix, P.next_line_prefix, input)

\* "a\n\n": the second line is only '\n' and the input ends in '\n'
C2_Witness ==
    /\ ~hist.failed /\ input = <<"a", NL, NL>>
    /\ sink = <<"*", " ", "a", NL, " ", " ", NL>>

\* C3: a write call with an empty buffer returns Ok(0), makes no sink write
\* and leaves the Prefixer (is_first_line, needs_prefix) and the sink as
\* they were.
C3_EmptyWriteNoOp ==
    [][(last'.op = "write" /\ last'.len = 0)
        => /\ last'.ok /\ last'.n = 0 /\ last'.attempts = 0
           /\ sink' = sink /\ prefixers' = prefixers /\ input' = input]_vars

\* an empty write right after a '\n', when a next-line prefix is pending
C3_Witness ==
    /\ last.op = "write" /\ last.len = 0
    /\ P.needs_prefix /\ ~P.is_first_line /\ P.next_line_prefix # <<>>
    /\ sink # <<>>

\* C4: a write call that fails made no sink write after the failing one; if
\* the failing write was that of a prefix, needs_prefix is still true and
\* is_first_line still selects that prefix; if it was that of content,
\* needs_prefix is false.
C4_FailureKeepsState ==
    (last.op = "write" /\ ~last.ok) =>
        /\ last.failAt > 0 /\ last.attempts = last.failAt
        /\ last.failed \in {"first", "next", "content"}
        /\ last.failed = "first" => (P.needs_prefix /\ P.is_first_line)
        /\ last.failed = "next" => (P.needs_prefix /\ ~P.is_first_line)
        /\ last.failed = "content" => (~P.needs_prefix /\ ~P.is_first_line)

\* the write of the second line's prefix fails, after the first line's
\* prefix and content went through in the same call
C4_Witness ==
    /\ last.op = "write" /\ ~last.ok /\ last.failed = "next"
    /\ last.attempts = 3 /\ P.needs_prefix /\ ~P.is_first_line

\* C5: with Prefixer I = prefixers[1] writing into Prefixer O = prefixers[2],
\* every line reaches the sink as O's prefix, then I's prefix, then the
\* line, for every chunking of the input.
C5_NestedAdditive ==
    Len(prefixers) = 2 =>
        sink = Prefixed(prefixers[2].first_line_prefix \o prefixers[1].first_line_prefix,
                        prefixers[2].next_line_prefix \o prefixers[1].next_line_prefix,
                        input)

\* two lines written in two calls through two Prefixers with all four
\* prefixes non-empty
C5_Witness ==
    /\ Len(prefixers) = 2 /\ input = <<"a", NL, "b">> /\ last.len = 1
    /\ sink = <<"*", " ", "*", " ", "a", NL, " ", " ", " ", " ", "b">>

----------------------------------------------------------------------------
(* The renderer: src/src/functions/writeln_error.rs, src/src/types/err_vec.rs *)

(* A text is a sequence of tokens: NL, or a piece of text without '\n' (a  *)
(* message, a marker, a prefix).  An error value is a record: a chain link *)
(* (a message and an optional source, <<>> for None and <<e>> for Some(e)) *)
(* or an ErrVec (its inner errors; `impl Error for ErrVec {}` leaves       *)
(* source() at None).                                                      *)

\* the single-line Display messages of the chain links
Messages == {"A", "B"}

ChainLink(message, source) ==
    [kind |-> "chain", message |-> message, source |-> source, inner |-> <<>>]

\* ErrVec::new / From<Vec<E>>
ErrVec_new(inner) ==
    [kind |-> "ErrVec", message |-> "", source |-> <<>>, inner |-> inner]

RECURSIVE ErrorsOfSize(_)
RECURSIVE VecsOfSize(_)

\* the error values made of exactly n chain links and ErrVecs
ErrorsOfSize(n) ==
    IF n < 1 THEN {}
    ELSE {ErrVec_new(v) : v \in VecsOfSize(n - 1)}
         \cup (IF n = 1 THEN {ChainLink(m, <<>>) : m \in Messages}
               ELSE {ChainLink(m, <<e>>) : m \in Messages, e \in ErrorsOfSize(n - 1)})

\* the Vec<E> values whose elements have n nodes in total
VecsOfSize(n) ==
    IF n = 0 THEN {<<>>}
    ELSE UNION {{<<e>> \o v : e \in ErrorsOfSize(k), v \in VecsOfSize(n - k)} : k \in 1..n}

Errors == UNION {ErrorsOfSize(n) : n \in 1..MaxNodes}

\* the smaller error values: those handed to the report functions, to
\* get_root_source and to a Formatter that may fail
ReportErrors == UNION {ErrorsOfSize(n) : n \in 1..MaxReportNodes}

\* str::lines: the pieces between '\n's; a final '\n' ends the last line
\* and starts no further one
RECURSIVE Lines(_)
Lines(string) ==
    IF string = <<>> THEN <<>>
    ELSE LET hits == {i \in 1..Len(string) : string[i] = NL}
         IN  IF hits = {} THEN <<string>>
             ELSE LET at == CHOOSE i \in hits : \A j \in hits : i <= j
                  IN  <<SubSeq(string, 1, at - 1)>>
                      \o Lines(SubSeq(string, at + 1, Len(string)))

\* a header that leaves the count out
ErrVecHeader_NoCount(len) == <<"encountered errors", NL>>

\* writeln!(f, "encountered {len} errors", len = self.len())
ErrVecHeader(len) == <<"encountered " \o ToString(len) \o " errors", NL>>

\* the "- " of write!(f, "- {error}")
LinkMarker == <<"- ">>

\* mutant: the first line of a child gets the continuation prefix
FirstLine_Continuation(first_line) == <<"    ">> \o first_line \o <<NL>>

\* writeln!(f, "  * {first_line}")
FirstLine(first_line) == <<"  * ">> \o first_line \o <<NL>>

\* mutant: only the first line of a child is written
RestLines_Dropped(lines) == <<>>

\* lines.try_for_each(|line| writeln!(f, "    {line}")), `lines` being the
\* iterator after its first item was taken
RestLines(lines) ==
    Concat([j \in 1..Len(lines) |-> <<"    ">> \o lines[j] \o <<NL>>])

\* mutant: no blank line closes a child's block
BlockEnd_None == <<>>

\* the writeln!(f) that closes a child's block
BlockEnd == <<NL>>

\* mutant: the children are rendered last to first
IterInner_Reversed(inner) == [i \in 1..Len(inner) |-> inner[Len(inner) + 1 - i]]

\* self.inner.iter()
IterInner(inner) == inner

RECURSIVE writeln_error_to_formatter(_)
RECURSIVE ErrVec_fmt(_)

\* <E as Display>::fmt: a chain link's message, an ErrVec's block list
Display_fmt(e) == IF e.kind = "ErrVec" THEN ErrVec_fmt(e) ELSE <<e.message>>

\* an ErrVec whose source() is its first child
Source_VecHasCause(e) ==
    IF e.kind = "ErrVec" /\ e.inner # <<>> THEN <<e.inner[1]>> ELSE e.source

\* error.source(): the source field of a chain link; ErrVec keeps the
\* default of `impl Error for ErrVec {}`, None
Source(e) == e.source

\* mutant: the links of a chain are separated by a space
ChainSeparator_Space == <<" ">>

\* f.write_char('\n')
ChainSeparator == <<NL>>

\* a walk that writes the source of a link before the link
writeln_error_to_formatter_CauseFirst(e) ==
    (IF Source(e) # <<>>
     THEN writeln_error_to_formatter(Source(e)[1]) \o ChainSeparator
     ELSE <<>>)
    \o LinkMarker \o Display_fmt(e)

\* writeln_error_to_formatter(error, f), on a Formatter that never fails
writeln_error_to_formatter(e) ==
    LinkMarker \o Display_fmt(e)
    \o (IF Source(e) # <<>>
        THEN ChainSeparator \o writeln_error_to_formatter(Source(e)[1])
        ELSE <<>>)

\* <RecursiveDisplayer as Display>::fmt.  It hands is_nested to
\* writeln_error_to_formatter, whose definition takes (error, f) only and
\* renders nested and top-level errors alike.
RecursiveDisplayer_fmt(e) == writeln_error_to_formatter(e)

\* the closure of try_for_each in <ErrVec as Display>::fmt, for one child
ChildBlock(child) ==
    LET string == RecursiveDisplayer_fmt(child)
        lines == Lines(string)
    IN  IF lines # <<>>
        THEN FirstLine(Head(lines)) \o RestLines(Tail(lines)) \o BlockEnd
        ELSE <<>>

\* <ErrVec as Display>::fmt
ErrVec_fmt(e) ==
    LET inner == IterInner(e.inner)
    IN  ErrVecHeader(Len(e.inner))
        \o Concat([i \in 1..Len(inner) |-> ChildBlock(inner[i])])

\* <ErrorDisplayer as Display>::fmt
ErrorDisplayer_fmt(e) == writeln_error_to_formatter(e)

(***************************************************************************)
(* The same impls on a Formatter whose write_str may fail.  A Formatter is *)
(* [out, n, failAt, ok]: the text written, the number of write_str calls,  *)
(* the call that fails, and whether the last call succeeded.  Each `?` of  *)
(* the code is a test of ok that returns the failed Formatter.             *)
(***************************************************************************)
NewFormatter(failAt) == [out |-> <<>>, n |-> 0, failAt |-> failAt, ok |-> TRUE]

\* f.write_str(token): the failAt-th call writes nothing and returns Err
write_str(f, token) ==
    IF f.n + 1 = f.failAt
    THEN [f EXCEPT !.n = @ + 1, !.ok = FALSE]
    ELSE [f EXCEPT !.n = @ + 1, !.ok = TRUE, !.out = Append(@, token)]

\* write!(f, ..) / writeln!(f, ..) / f.write_char(..): the pieces are
\* written in turn and the first failure is returned
RECURSIVE write_fmt(_, _)
write_fmt(f, text) ==
    IF text = <<>> THEN [f EXCEPT !.ok = TRUE]
    ELSE LET g == write_str(f, Head(text))
         IN  IF ~g.ok THEN g ELSE write_fmt(g, Tail(text))

RECURSIVE writeln_error_to(_, _)
RECURSIVE children_to_ForEach(_, _, _)
RECURSIVE children_to(_, _, _)

\* the closure of try_for_each in <ErrVec as Display>::fmt, for one child:
\* format! renders the child into a String, its lines go to f
child_to(child, f) ==
    LET string == RecursiveDisplayer_fmt(child)
        lines == Lines(string)
    IN  IF lines # <<>>
        THEN LET g == write_fmt(f, FirstLine(Head(lines))) IN
             IF ~g.ok THEN g ELSE
             LET h == write_fmt(g, RestLines(Tail(lines))) IN
             IF ~h.ok THEN h ELSE
             write_fmt(h, BlockEnd)
        ELSE [f EXCEPT !.ok = TRUE]

\* a for_each in place of try_for_each: a failed child does not stop it
children_to_ForEach(inner, i, f) ==
    IF i > Len(inner) THEN [f EXCEPT !.ok = TRUE]
    ELSE children_to_ForEach(inner, i + 1, child_to(inner[i], f))

\* self.inner.iter().try_for_each(..), from the i-th child on
children_to(inner, i, f) ==
    IF i > Len(inner) THEN [f EXCEPT !.ok = TRUE]
    ELSE LET g == child_to(inner[i], f)
         IN  IF ~g.ok THEN g ELSE children_to(inner, i + 1, g)

\* <ErrVec as Display>::fmt
ErrVec_to(e, f) ==
    LET g == write_fmt(f, ErrVecHeader(Len(e.inner)))
    IN  IF ~g.ok THEN g ELSE children_to(IterInner(e.inner), 1, g)

\* <E as Display>::fmt
Display_to(e, f) ==
    IF e.kind = "ErrVec" THEN ErrVec_to(e, f) ELSE write_fmt(f, <<e.message>>)

\* writeln_error_to_formatter(error, f)
writeln_error_to(e, f) ==
    LET g == write_fmt(f, LinkMarker) IN
    IF ~g.ok THEN g ELSE
    LET h == Display_to(e, g) IN
    IF ~h.ok THEN h ELSE
    IF Source(e) # <<>>
    THEN LET k == write_fmt(h, ChainSeparator)
         IN  IF ~k.ok THEN k ELSE writeln_error_to(Source(e)[1], k)
    ELSE h

\* <ErrorDisplayer as Display>::fmt
ErrorDisplayer_to(e, f) == writeln_error_to(e, f)

(* SpecRenderTo: an error value is formatted into a Formatter that may fail *)

FormatterFailures == 0..MaxFormatterWrites

InitRenderTo ==
    /\ UtilIdle
    /\ PrefixerIdle
    /\ ExitIdle
    /\ ReportIdle
    /\ CollectIdle
    /\ error \in ReportErrors
    /\ out = <<>>
    /\ rpc = "start"
    /\ ffail \in FormatterFailures
    /\ fres = "none"

FormatErrorDisplayerTo ==
    /\ rpc = "start"
    /\ LET f == ErrorDisplayer_to(error, NewFormatter(ffail))
       IN  out' = f.out /\ fres' = IF f.ok THEN "Ok" ELSE "Err"
    /\ rpc' = "ErrorDisplayer"
    /\ UNCHANGED <<error, ffail, prefixerVars, exitVars, reportVars, collectVars, utilVars>>

FormatErrVecTo ==
    /\ rpc = "start"
    /\ error.kind = "ErrVec"
    /\ LET f == ErrVec_to(error, NewFormatter(ffail))
       IN  out' = f.out /\ fres' = IF f.ok THEN "Ok" ELSE "Err"
    /\ rpc' = "ErrVec"
    /\ UNCHANGED <<error, ffail, prefixerVars, exitVars, reportVars, collectVars, utilVars>>

NextRenderTo == FormatErrorDisplayerTo \/ FormatErrVecTo

SpecRenderTo == InitRenderTo /\ [][NextRenderTo]_vars

(* SpecRender: an error value is formatted, through ErrorDisplayer or, an  *)
(* ErrVec, through its own Display impl                                    *)

InitRender ==
    /\ UtilIdle
    /\ FmtIdle
    /\ PrefixerIdle
    /\ ExitIdle
    /\ ReportIdle
    /\ CollectIdle
    /\ error \in Errors
    /\ out = <<>>
    /\ rpc = "start"

FormatErrorDisplayer ==
    /\ rpc = "start"
    /\ out' = ErrorDisplayer_fmt(error)
    /\ rpc' = "ErrorDisplayer"
    /\ UNCHANGED <<error, prefixerVars, exitVars, reportVars, collectVars, utilVars, fmtVars>>

FormatErrVec ==
    /\ rpc = "start"
    /\ error.kind = "ErrVec"
    /\ out' = ErrVec_fmt(error)
    /\ rpc' = "ErrVec"
    /\ UNCHANGED <<error, prefixerVars, exitVars, reportVars, collectVars, utilVars, fmtVars>>

NextRender == FormatErrorDisplayer \/ FormatErrVec

SpecRender == InitRender /\ [][NextRender]_vars

----------------------------------------------------------------------------
(* Properties of the renderer *)

\* e is a causal chain without an ErrVec in it
RECURSIVE IsPlainChain(_)
IsPlainChain(e) ==
    /\ e.kind = "chain"
    /\ e.source # <<>> => IsPlainChain(e.source[1])

\* the messages of a plain chain, from the top-level failure to the root cause
RECURSIVE ChainMessages(_)
ChainMessages(e) ==
    <<e.message>> \o (IF e.source = <<>> THEN <<>> ELSE ChainMessages(e.source[1]))

\* an ErrVec is e or is reached from e through sources
RECURSIVE LeadsToErrVec(_)
LeadsToErrVec(e) ==
    \/ e.kind = "ErrVec"
    \/ e.source # <<>> /\ LeadsToErrVec(e.source[1])

\* the i-th smallest element of a set of numbers
Nth(S, i) == CHOOSE x \in S : Cardinality({y \in S : y < x}) = i - 1

\* the lines of an ErrVec's rendering after its header line
Body == Tail(Lines(out))

\* the lines of Body that open a top-level bulleted block
Bullets == {j \in 1..Len(Body) : Body[j] # <<>> /\ Body[j][1] = "  * "}

\* the last line of the run of prefixed lines that the bullet line b opens
BlockLast(b) ==
    CHOOSE l \in b..Len(Body) :
        /\ \A j \in (b + 1)..l : Body[j] # <<>> /\ Body[j][1] = "    "
        /\ l < Len(Body) => (Body[l + 1] = <<>> \/ Body[l + 1][1] # "    ")

\* C6 as claimed: a chain of depth n without an ErrVec renders as n lines,
\* each exactly the link's message, without a marker.
C6_Original ==
    (rpc = "ErrorDisplayer" /\ IsPlainChain(error)) =>
        Lines(out) = [i \in 1..Len(ChainMessages(error)) |-> <<ChainMessages(error)[i]>>]

\* C6 as amended: a chain of depth n without an ErrVec renders as exactly n
\* lines, top-level failure first, each the marker "- " followed by the
\* link's message, without indentation.
C6_Amended ==
    (rpc = "ErrorDisplayer" /\ IsPlainChain(error)) =>
        Lines(out) = [i \in 1..Len(ChainMessages(error)) |->
                        <<"- ", ChainMessages(error)[i]>>]

\* A caused by B caused by A
C6_Witness ==
    /\ rpc = "ErrorDisplayer"
    /\ error = ChainLink("A", <<ChainLink("B", <<ChainLink("A", <<>>)>>)>>)
    /\ Len(Lines(out)) = 3

\* C7: an ErrVec with k children renders as its header and exactly k
\* top-level bulleted blocks, in the order of inner; in block i the first
\* line of child i's rendering follows "  * " and each later line of it
\* follows "    ".
C7_BlocksInOrder ==
    rpc = "ErrVec" =>
        /\ Head(Lines(out)) = <<"encountered " \o ToString(Len(error.inner)) \o " errors">>
        /\ Cardinality(Bullets) = Len(error.inner)
        /\ \A i \in 1..Len(error.inner) :
              LET b == Nth(Bullets, i)
                  R == Lines(ErrorDisplayer_fmt(error.inner[i]))
                  nextb == IF i < Len(error.inner) THEN Nth(Bullets, i + 1)
                           ELSE Len(Body) + 1
              IN  /\ b + Len(R) - 1 < nextb
                  /\ \A j \in 1..Len(R) :
                        Body[b + j - 1] = (IF j = 1 THEN <<"  * ">> ELSE <<"    ">>) \o R[j]

\* three children, the first one a two-line chain, the others different leaves
C7_Witness ==
    /\ rpc = "ErrVec"
    /\ error.inner = <<ChainLink("A", <<ChainLink("B", <<>>)>>),
                       ChainLink("B", <<>>), ChainLink("A", <<>>)>>
    /\ Cardinality(Bullets) = 3

\* the lines C8 claims for an ErrVec of plain chains: per child "  * " and
\* its first message, then "    " and each further message
RECURSIVE ClaimedBlocks(_)
ClaimedBlocks(inner) ==
    IF inner = <<>> THEN <<>>
    ELSE LET ms == ChainMessages(Head(inner))
         IN  [j \in 1..Len(ms) |-> <<IF j = 1 THEN "  * " ELSE "    ", ms[j]>>]
             \o ClaimedBlocks(Tail(inner))

\* the lines the amended C8 states: per child "  * - " and its first
\* message, then "    - " and each further message, then a blank line
RECURSIVE MarkedBlocks(_)
MarkedBlocks(inner) ==
    IF inner = <<>> THEN <<>>
    ELSE LET ms == ChainMessages(Head(inner))
         IN  [j \in 1..Len(ms) |-> <<IF j = 1 THEN "  * " ELSE "    ", "- ", ms[j]>>]
             \o << <<>> >> \o MarkedBlocks(Tail(inner))

AllPlainChains(inner) == \A i \in 1..Len(inner) : IsPlainChain(inner[i])

\* C8 as claimed: an ErrVec of plain chains renders as its header line and,
\* per child, "  * X" and then "    X2" for each further link, with no other
\* marker and no blank line.
C8_Original ==
    (rpc = "ErrVec" /\ AllPlainChains(error.inner)) =>
        Lines(out) = << <<"encountered " \o ToString(Len(error.inner)) \o " errors">> >>
                     \o ClaimedBlocks(error.inner)

\* C8 as amended: an ErrVec of plain chains renders as its header line and,
\* per child, "  * - X", then "    - X2" for each further link, then one
\* blank line, and nothing else.
C8_Amended ==
    (rpc = "ErrVec" /\ AllPlainChains(error.inner)) =>
        Lines(out) = << <<"encountered " \o ToString(Len(error.inner)) \o " errors">> >>
                     \o MarkedBlocks(error.inner)

\* "encountered 2 errors" with the leaf children A and B
C8_Witness ==
    /\ rpc = "ErrVec"
    /\ error.inner = <<ChainLink("A", <<>>), ChainLink("B", <<>>)>>
    /\ Lines(out) = << <<"encountered 2 errors">>, <<"  * ", "- ", "A">>, <<>>,
                       <<"  * ", "- ", "B">>, <<>> >>

----------------------------------------------------------------------------
(* The report functions: src/src/functions/writeln_error.rs,                *)
(* src/src/functions/write_to_named_temp_file.rs                           *)
(*                                                                         *)
(* env says what the surroundings do during one report: wfail is the       *)
(* writeln! on the primary writer that fails (0: none does), partial       *)
(* whether the failing writeln! had written a part of its text, persist    *)
(* how write_to_named_temp_file ends, fallback_fails whether the eprintln! *)
(* of eprintln_error fails to write to stderr.                             *)
(***************************************************************************)

\* the variants of WriteErrorDebugToTempFileError
PersistErrors == {"CreateTempFileFailed", "WriteFailed", "KeepFailed"}

Envs == [wfail : 0..3, partial : BOOLEAN, persist : {"Ok"} \cup PersistErrors,
         fallback_fails : BOOLEAN]

\* the path NamedTempFile::keep returns
TempPath == "/tmp/.tmpXXXXXX"

\* format!("{error:#?}") of an error value: the dump of the whole value
Debug(e) == <<"{:#?}", e>>

\* "{other_error:#?}" of a WriteErrorDebugToTempFileError
DebugOfPersistError(kind) == "{:#?} of " \o kind

IoError(k) == "io::Error of writeln! " \o ToString(k)

\* write_to_named_temp_file(buf): the temp file is kept, and its path
\* returned, only when creating, writing and keeping all succeed
write_to_named_temp_file(buf, e) ==
    IF e.persist = "Ok"
    THEN [ok |-> TRUE, path |-> TempPath, err |-> "none", kept |-> buf]
    ELSE [ok |-> FALSE, path |-> "none", err |-> e.persist, kept |-> <<>>]

\* the k-th writeln!(writer, ..) of writeln_error_to_writer_and_file: the text
\* reaches the writer w, or the write fails, a part of the text written
Writeln(w, k, text, e) ==
    IF e.wfail = k
    THEN [primary |-> w \o (IF e.partial THEN SubSeq(text, 1, Min(1, Len(text) - 1))
                            ELSE <<>>),
          ok |-> FALSE]
    ELSE [primary |-> w \o text, ok |-> TRUE]

\* the first writeln!: "{error}", the Display of the error value itself
TraceText(e) == Display_fmt(e) \o <<NL>>

\* the last writeln!: the pointer to the kept file, or the persist error
PointerText(path) == <<"See the full error report:", NL, "less " \o path, NL>>

LastText_AlwaysPointer(result) == PointerText(result.path)

LastText(result) ==
    IF result.ok THEN PointerText(result.path)
    ELSE <<DebugOfPersistError(result.err), NL>>

\* what writeln_error_to_writer_and_file returns after its last writeln!
LastReturn_PersistErrorReturned(w3ok, result) ==
    IF w3ok /\ result.ok THEN [ok |-> TRUE, err |-> "none"]
    ELSE [ok |-> FALSE, err |-> IF w3ok THEN result.err ELSE IoError(3)]

LastReturn(w3ok, result) ==
    IF w3ok THEN [ok |-> TRUE, err |-> "none"] ELSE [ok |-> FALSE, err |-> IoError(3)]

\* mutant: the dump is persisted before anything is written to the writer
writeln_error_to_writer_and_file_PersistFirst(e, en) ==
    LET result == write_to_named_temp_file(Debug(e), en)
        w1 == Writeln(<<>>, 1, TraceText(e), en)
        w2 == Writeln(w1.primary, 2, <<NL>>, en)
        w3 == Writeln(w2.primary, 3, LastText(result), en)
    IN  IF ~w1.ok
        THEN [primary |-> w1.primary, blob |-> result.kept,
              ret |-> [ok |-> FALSE, err |-> IoError(1)],
              events |-> <<"write_to_named_temp_file", "writeln! 1">>,
              panicked |-> FALSE]
        ELSE IF ~w2.ok
        THEN [primary |-> w2.primary, blob |-> result.kept,
              ret |-> [ok |-> FALSE, err |-> IoError(2)],
              events |-> <<"write_to_named_temp_file", "writeln! 1", "writeln! 2">>,
              panicked |-> FALSE]
        ELSE [primary |-> w3.primary, blob |-> result.kept,
              ret |-> LastReturn(w3.ok, result),
              events |-> <<"write_to_named_temp_file", "writeln! 1", "writeln! 2",
                           "writeln! 3">>,
              panicked |-> FALSE]

\* writeln_error_to_writer_and_file(error, writer), the writer empty before
writeln_error_to_writer_and_file(e, en) ==
    LET w1 == Writeln(<<>>, 1, TraceText(e), en) IN
    IF ~w1.ok
    THEN [primary |-> w1.primary, blob |-> <<>>,
          ret |-> [ok |-> FALSE, err |-> IoError(1)],
          events |-> <<"writeln! 1">>, panicked |-> FALSE]
    ELSE
    LET w2 == Writeln(w1.primary, 2, <<NL>>, en) IN
    IF ~w2.ok
    THEN [primary |-> w2.primary, blob |-> <<>>,
          ret |-> [ok |-> FALSE, err |-> IoError(2)],
          events |-> <<"writeln! 1", "writeln! 2">>, panicked |-> FALSE]
    ELSE
    LET error_debug == Debug(e)
        result == write_to_named_temp_file(error_debug, en)
        w3 == Writeln(w2.primary, 3, LastText(result), en)
    IN  [primary |-> w3.primary, blob |-> result.kept,
         ret |-> LastReturn(w3.ok, result),
         events |-> <<"writeln! 1", "writeln! 2", "write_to_named_temp_file",
                      "writeln! 3">>,
         panicked |-> FALSE]

\* eprintln_error(error): the report goes to the locked stderr; when it
\* returns Err, eprintln! writes to stderr again, and panics when that write
\* fails too
eprintln_error(e, en) ==
    LET r == writeln_error_to_writer_and_file(e, en) IN
    IF r.ret.ok THEN r
    ELSE IF en.fallback_fails
         THEN [r EXCEPT !.events = Append(@, "eprintln!"), !.panicked = TRUE]
         ELSE [r EXCEPT !.primary = @ \o <<"failed to write to stderr: " \o r.ret.err, NL>>,
                        !.events = Append(@, "eprintln!")]

(***************************************************************************)
(* SpecReport: an error value is reported, by                              *)
(* writeln_error_to_writer_and_file on a writer or by eprintln_error       *)
(***************************************************************************)
InitReport ==
    /\ UtilIdle
    /\ FmtIdle
    /\ PrefixerIdle
    /\ ExitIdle
    /\ CollectIdle
    /\ error \in ReportErrors /\ out = <<>> /\ rpc = "idle"
    /\ env \in Envs
    /\ report = NoReport
    /\ ppc = "start"

CallWritelnError ==
    /\ ppc = "start"
    /\ report' = writeln_error_to_writer_and_file(error, env)
    /\ ppc' = "writeln_error_to_writer_and_file"
    /\ UNCHANGED <<env, prefixerVars, renderVars, exitVars, collectVars, utilVars, fmtVars>>

CallEprintlnError ==
    /\ ppc = "start"
    /\ report' = eprintln_error(error, env)
    /\ ppc' = "eprintln_error"
    /\ UNCHANGED <<env, prefixerVars, renderVars, exitVars, collectVars, utilVars, fmtVars>>

NextReport == CallWritelnError \/ CallEprintlnError

SpecReport == InitReport /\ [][NextReport]_vars

----------------------------------------------------------------------------
(* Properties of the report functions *)

\* writeln_error_to_writer_and_file has returned
Reported == ppc = "writeln_error_to_writer_and_file"

\* s is the beginning of t
IsPrefixOf(s, t) == Len(s) <= Len(t) /\ SubSeq(t, 1, Len(s)) = s

\* C14: what writeln_error_to_writer_and_file writes to the writer begins
\* with the trace of the error, the text ErrorDisplayer renders: one line
\* for every link of the source chain, not the top-level message alone.
C14_BeginsWithTrace ==
    (Reported /\ env.wfail # 1) =>
        IsPrefixOf(ErrorDisplayer_fmt(error) \o <<NL>>, report.primary)

\* C15: when every write and the persisting succeed, the writer receives the
\* trace, one blank line and the pointer to the kept file, in this order and
\* nothing else, and the kept file holds the "{error:#?}" dump of the error.
C15_TraceBlankPointer ==
    (Reported /\ env.wfail = 0 /\ env.persist = "Ok") =>
        /\ report.primary = ErrorDisplayer_fmt(error) \o <<NL>> \o <<NL>>
                            \o PointerText(TempPath)
        /\ report.blob = Debug(error)

\* C16: when persisting fails and the writes to the writer succeed, the
\* persist error is written where the pointer would be, no pointer is
\* written, nothing is kept, and Ok(()) is returned.
C16_PersistFailureWritten ==
    (Reported /\ env.wfail = 0 /\ env.persist # "Ok") =>
        /\ report.primary = TraceText(error) \o <<NL>>
                            \o <<DebugOfPersistError(env.persist), NL>>
        /\ \A i \in 1..Len(report.primary) :
               report.primary[i] # "See the full error report:"
        /\ report.blob = <<>>
        /\ report.ret.ok

\* keeping the temp file failed, all writes succeeded
C16_Witness ==
    /\ Reported /\ env.wfail = 0 /\ env.persist = "KeepFailed"
    /\ report.ret.ok
    /\ report.events = <<"writeln! 1", "writeln! 2", "write_to_named_temp_file",
                         "writeln! 3">>

\* C17: writeln_error_to_writer_and_file returns Err exactly when one of its
\* writes to the writer fails, and the error is that write's io::Error, the
\* write being the last thing the function did; a persist error is never
\* returned.
C17_ErrIffWriteFails ==
    Reported =>
        /\ report.ret.ok <=> env.wfail = 0
        /\ ~report.ret.ok =>
               /\ report.ret.err = IoError(env.wfail)
               /\ report.events[Len(report.events)] = "writeln! " \o ToString(env.wfail)
        /\ report.ret.err \notin PersistErrors

\* persisting failed and the last write failed: the io::Error is returned
C17_Witness ==
    /\ Reported /\ env.wfail = 3 /\ env.persist = "WriteFailed"
    /\ ~report.ret.ok /\ report.ret.err = IoError(3)

----------------------------------------------------------------------------
(* The exit-code mappers: src/src/functions/exit_result.rs *)

\* the error values a Result may carry
ErrorIds == {"E1", "E2"}

\* Result<(), E>: the items of an iterator or a stream of results
UnitResults == {[ok |-> TRUE, val |-> "()"]} \cup {[ok |-> FALSE, val |-> e] : e \in ErrorIds}

\* the ExitCode values: the two constants, and one more of ExitCode::from(u8)
ExitCodes == {"SUCCESS", "FAILURE", "from(2)"}

\* Result<ExitCode, E>: the argument of exit_result
ExitCodeResults ==
    {[ok |-> TRUE, val |-> c] : c \in ExitCodes}
    \cup {[ok |-> FALSE, val |-> e] : e \in ErrorIds}

\* the error value an id stands for
ErrorValue(id) == ChainLink(id, <<>>)

InitExit ==
    /\ UtilIdle
    /\ FmtIdle
    /\ PrefixerIdle
    /\ RenderIdle
    /\ CollectIdle
    /\ form \in {"result", "iterator", "stream"}
    /\ results \in IF form = "result" THEN {<<r>> : r \in ExitCodeResults}
                   ELSE SeqsUpTo(UnitResults, MaxResults)
    /\ pulled = 0
    /\ reported = <<>>
    /\ exit_code = "none"
    /\ epc = "start"
    /\ env \in Envs
    /\ report = NoReport
    /\ ppc = "idle"

\* `eprintln_error(&error); ExitCode::FAILURE`: the error is reported; the
\* mapper returns FAILURE unless eprintln_error panicked
ReportAndFail(e) ==
    /\ reported' = Append(reported, e)
    /\ report' = eprintln_error(ErrorValue(e), env)
    /\ ppc' = "eprintln_error"
    /\ IF report'.panicked
       THEN exit_code' = exit_code /\ epc' = "panicked"
       ELSE exit_code' = "FAILURE" /\ epc' = "done"

\* exit_result: result.unwrap_or_else(|err| { eprintln_error(&err); FAILURE })
ExitResult ==
    /\ form = "result" /\ epc = "start"
    /\ pulled' = 1
    /\ IF results[1].ok
       THEN /\ exit_code' = results[1].val
            /\ epc' = "done"
            /\ UNCHANGED <<reported, report, ppc>>
       ELSE ReportAndFail(results[1].val)
    /\ UNCHANGED <<form, results, env, prefixerVars, renderVars, collectVars, utilVars, fmtVars>>

\* exit_iterator_of_results_print_first: iter.into_iter(), entering the loop
IterStart ==
    /\ form = "iterator" /\ epc = "start"
    /\ epc' = "loop"
    /\ UNCHANGED <<form, results, pulled, reported, exit_code, reportVars,
                   prefixerVars, renderVars, collectVars, utilVars, fmtVars>>

\* a loop that reports an Err and goes round again
IterNext_KeepsGoing ==
    /\ form = "iterator" /\ epc = "loop" /\ pulled < Len(results)
    /\ pulled' = pulled + 1
    /\ IF results[pulled + 1].ok
       THEN UNCHANGED <<reported, exit_code, epc, report, ppc>>
       ELSE /\ reported' = Append(reported, results[pulled + 1].val)
            /\ report' = eprintln_error(ErrorValue(results[pulled + 1].val), env)
            /\ ppc' = "eprintln_error"
            /\ UNCHANGED <<exit_code, epc>>
    /\ UNCHANGED <<form, results, env, prefixerVars, renderVars, collectVars, utilVars, fmtVars>>

\* one turn of `for result in iter`: the next item is pulled; an Err is
\* reported and FAILURE returned, an Ok goes round again
IterNext ==
    /\ form = "iterator" /\ epc = "loop" /\ pulled < Len(results)
    /\ pulled' = pulled + 1
    /\ IF results[pulled + 1].ok
       THEN UNCHANGED <<reported, exit_code, epc, report, ppc>>
       ELSE ReportAndFail(results[pulled + 1].val)
    /\ UNCHANGED <<form, results, env, prefixerVars, renderVars, collectVars, utilVars, fmtVars>>

\* the iterator returns None: the loop ends and SUCCESS is returned
IterEnd ==
    /\ form = "iterator" /\ epc = "loop" /\ pulled = Len(results)
    /\ exit_code' = "SUCCESS"
    /\ epc' = "done"
    /\ UNCHANGED <<form, results, pulled, reported, reportVars, prefixerVars, renderVars, collectVars, utilVars, fmtVars>>

\* exit_stream_of_results_print_first: pin!(stream); stream.next() is
\* polled and the future suspends
StreamStart ==
    /\ form = "stream" /\ epc = "start"
    /\ epc' = "awaiting"
    /\ UNCHANGED <<form, results, pulled, reported, exit_code, reportVars,
                   prefixerVars, renderVars, collectVars, utilVars, fmtVars>>

\* stream.next().await resolves, once: `if let Some(Err(error))` reports
\* and returns FAILURE; Some(Ok(())) and None fall through to SUCCESS
StreamResolve ==
    /\ form = "stream" /\ epc = "awaiting"
    /\ pulled' = Min(1, Len(results))
    /\ IF results # <<>> /\ ~results[1].ok
       THEN ReportAndFail(results[1].val)
       ELSE /\ exit_code' = "SUCCESS"
            /\ epc' = "done"
            /\ UNCHANGED <<reported, report, ppc>>
    /\ UNCHANGED <<form, results, env, prefixerVars, renderVars, collectVars, utilVars, fmtVars>>

NextExit ==
    \/ ExitResult
    \/ IterStart \/ IterNext \/ IterEnd
    \/ StreamStart \/ StreamResolve

SpecExit == InitExit /\ [][NextExit]_vars

----------------------------------------------------------------------------
(* Properties of the exit-code mappers *)

\* the positions of the Err items
ErrPositions == {i \in 1..Len(results) : ~results[i].ok}

\* C10: exit_stream_of_results_print_first returns FAILURE, having reported
\* the first Err of the stream, whenever the stream yields an Err at any
\* position, and SUCCESS, having reported nothing, only when the stream
\* ends without an Err.
C10_StreamFirstErr ==
    (form = "stream" /\ epc = "done") =>
        IF ErrPositions # {}
        THEN /\ exit_code = "FAILURE"
             /\ reported = <<results[Nth(ErrPositions, 1)].val>>
        ELSE exit_code = "SUCCESS" /\ reported = <<>>

\* the position of the first Err item, 0 when there is none
FirstErrPosition == IF ErrPositions = {} THEN 0 ELSE Nth(ErrPositions, 1)

\* C11: exit_iterator_of_results_print_first pulls the items in order; at
\* the first Err it reports exactly that error, returns FAILURE and pulls no
\* later item; it returns SUCCESS only once every item has been pulled and
\* none was an Err.
C11_IteratorShortCircuit ==
    form = "iterator" =>
        /\ \A i \in ErrPositions : pulled <= i
        /\ reported = IF ErrPositions # {} /\ pulled = FirstErrPosition
                      THEN <<results[FirstErrPosition].val>> ELSE <<>>
        /\ epc = "done" =>
               IF ErrPositions # {}
               THEN exit_code = "FAILURE" /\ pulled = FirstErrPosition
               ELSE exit_code = "SUCCESS" /\ pulled = Len(results)
        /\ exit_code = "SUCCESS" => (ErrPositions = {} /\ pulled = Len(results))

\* an Err with an Ok before it and an item after it: the loop has returned
\* FAILURE with the item after the Err never pulled
C11_Witness ==
    /\ form = "iterator" /\ epc = "done"
    /\ Len(results) = 3 /\ results[1].ok /\ ~results[2].ok
    /\ pulled = 2 /\ exit_code = "FAILURE" /\ reported = <<results[2].val>>

\* the outcome handed to a mapper is a success: Ok(..) for exit_result, no
\* Err among the items for the other two
SuccessOutcome == IF form = "result" THEN results[1].ok ELSE ErrPositions = {}

\* C12: on a success outcome every mapper returns ExitCode::SUCCESS without
\* calling eprintln_error, and a mapper returns nothing but SUCCESS or
\* FAILURE.
C12_SuccessReturnsSuccess ==
    epc = "done" =>
        /\ exit_code \in {"SUCCESS", "FAILURE"}
        /\ SuccessOutcome =>
               (exit_code = "SUCCESS" /\ reported = <<>> /\ report = NoReport)

\* C13: on a failing outcome exit_result and the iterator form call
\* eprintln_error once, with the failing value, and then return FAILURE;
\* they never panic, whatever the writes to stderr and the persisting do.
C13_FailureReportedOnce ==
    (form \in {"result", "iterator"} /\ ~SuccessOutcome /\ epc \in {"done", "panicked"}) =>
        /\ epc = "done"
        /\ exit_code = "FAILURE"
        /\ reported = <<results[FirstErrPosition].val>>

----------------------------------------------------------------------------
(* The collecting function and macros: src/src/functions/partition_result.rs, *)
(* handle_iter!, handle_iter_of_refs!, handle_into_iter! of src/src/macros.rs *)
(*                                                                         *)
(* A Result is [ok, val]; an accumulator holds the vectors of a fold and   *)
(* idx, the number of results folded.                                      *)
(***************************************************************************)

\* the Ok values a Result may carry
OkValues == {"v1", "v2"}

CollectResults ==
    {[ok |-> TRUE, val |-> v] : v \in OkValues}
    \cup {[ok |-> FALSE, val |-> e] : e \in ErrorIds}

\* the first n items of the input the results were computed from
Items(n) == [i \in 1..n |-> "item" \o ToString(i)]

\* ItemError { item, source }
ItemError(item, source) == [item |-> item, source |-> source]

\* the closure of partition_result's fold
partition_result_fold_FirstErrorOnly(a, result) ==
    IF result.ok
    THEN IF a.errors = <<>> THEN [a EXCEPT !.oks = Append(@, result.val)] ELSE a
    ELSE IF a.errors = <<>> THEN [a EXCEPT !.oks = <<>>, !.errors = <<result.val>>]
         ELSE a

partition_result_fold(a, result) ==
    IF result.ok
    THEN IF a.errors = <<>> THEN [a EXCEPT !.oks = Append(@, result.val)] ELSE a
    ELSE [a EXCEPT !.oks = IF a.errors = <<>> THEN <<>> ELSE @,
                   !.errors = Append(@, result.val)]

\* itertools::Itertools::partition_result, one item at a time: an Ok value
\* goes to the first collection, an Err value to the second
itertools_partition_step_ErrorsReversed(a, result) ==
    IF result.ok THEN [a EXCEPT !.oks = Append(@, result.val)]
    ELSE [a EXCEPT !.errors = <<result.val>> \o @]

itertools_partition_step(a, result) ==
    IF result.ok THEN [a EXCEPT !.oks = Append(@, result.val)]
    ELSE [a EXCEPT !.errors = Append(@, result.val)]

\* the closure of handle_iter_of_refs!'s fold over zip($results, $items)
handle_iter_of_refs_fold_ItemDropped(a, result, item) ==
    IF result.ok
    THEN [a EXCEPT !.oks = Append(@, result.val)]
    ELSE [a EXCEPT !.errors = Append(@, ItemError(item, result.val))]

handle_iter_of_refs_fold(a, result, item) ==
    IF result.ok
    THEN [a EXCEPT !.oks = Append(@, result.val), !.items = Append(@, item)]
    ELSE [a EXCEPT !.errors = Append(@, ItemError(item, result.val))]

\* the pairs std::iter::zip yields: as many as the shorter of the two has
ZipLen(results_, items_) == Min(Len(results_), Len(items_))

InitCollect ==
    /\ UtilIdle
    /\ FmtIdle
    /\ PrefixerIdle /\ RenderIdle /\ ExitIdle /\ ReportIdle
    /\ \E fn \in {"partition_result", "handle_iter", "handle_into_iter",
                  "handle_iter_of_refs"} :
       \E rs \in SeqsUpTo(CollectResults, MaxResults) :
       \E n \in 0..MaxResults :
           /\ fn # "handle_iter_of_refs" => n = 0
           /\ call = [fn |-> fn, results |-> rs, items |-> Items(n)]
           /\ cpc = IF fn = "handle_into_iter" THEN "into_iter" ELSE "fold"
    /\ acc = EmptyAcc
    /\ outcome = NoOutcome

\* handle_into_iter!: handle_iter!($results.into_iter(), ..)
HandleIntoIter ==
    /\ call.fn = "handle_into_iter" /\ cpc = "into_iter"
    /\ cpc' = "fold"
    /\ UNCHANGED <<call, acc, outcome, prefixerVars, renderVars, exitVars, reportVars, utilVars, fmtVars>>

\* partition_result: the fold takes the next result
PartitionResultFold ==
    /\ call.fn = "partition_result" /\ cpc = "fold" /\ acc.idx < Len(call.results)
    /\ acc' = [partition_result_fold(acc, call.results[acc.idx + 1]) EXCEPT !.idx = @ + 1]
    /\ UNCHANGED <<call, outcome, cpc, prefixerVars, renderVars, exitVars, reportVars, utilVars, fmtVars>>

\* partition_result: if errors.is_empty() { Ok(oks) } else { Err(errors) }
PartitionResultReturn ==
    /\ call.fn = "partition_result" /\ cpc = "fold" /\ acc.idx = Len(call.results)
    /\ outcome' = IF acc.errors = <<>>
                  THEN [NoOutcome EXCEPT !.kind = "Ok", !.oks = acc.oks]
                  ELSE [NoOutcome EXCEPT !.kind = "Err", !.errors = acc.errors]
    /\ cpc' = "returned"
    /\ UNCHANGED <<call, acc, prefixerVars, renderVars, exitVars, reportVars, utilVars, fmtVars>>

\* handle_iter!: partition_result takes the next result
HandleIterFold ==
    /\ call.fn \in {"handle_iter", "handle_into_iter"} /\ cpc = "fold"
    /\ acc.idx < Len(call.results)
    /\ acc' = [itertools_partition_step(acc, call.results[acc.idx + 1]) EXCEPT !.idx = @ + 1]
    /\ UNCHANGED <<call, outcome, cpc, prefixerVars, renderVars, exitVars, reportVars, utilVars, fmtVars>>

\* handle_iter!: the block evaluates to oks, or the enclosing function
\* returns Err($variant { source: errors.into(), .. })
HandleIterEnd ==
    /\ call.fn \in {"handle_iter", "handle_into_iter"} /\ cpc = "fold"
    /\ acc.idx = Len(call.results)
    /\ outcome' = IF acc.errors = <<>>
                  THEN [NoOutcome EXCEPT !.kind = "value", !.oks = acc.oks]
                  ELSE [NoOutcome EXCEPT !.kind = "return Err", !.errors = acc.errors]
    /\ cpc' = "returned"
    /\ UNCHANGED <<call, acc, prefixerVars, renderVars, exitVars, reportVars, utilVars, fmtVars>>

\* handle_iter_of_refs!: the fold takes the next pair of the zip
HandleIterOfRefsFold ==
    /\ call.fn = "handle_iter_of_refs" /\ cpc = "fold"
    /\ acc.idx < ZipLen(call.results, call.items)
    /\ acc' = [handle_iter_of_refs_fold(acc, call.results[acc.idx + 1],
                                        call.items[acc.idx + 1])
                   EXCEPT !.idx = @ + 1]
    /\ UNCHANGED <<call, outcome, cpc, prefixerVars, renderVars, exitVars, reportVars, utilVars, fmtVars>>

\* handle_iter_of_refs!: the block evaluates to (outputs, items), or the
\* enclosing function returns Err($variant { source: errors.into(), .. })
HandleIterOfRefsEnd ==
    /\ call.fn = "handle_iter_of_refs" /\ cpc = "fold"
    /\ acc.idx = ZipLen(call.results, call.items)
    /\ outcome' = IF acc.errors = <<>>
                  THEN [NoOutcome EXCEPT !.kind = "value", !.oks = acc.oks,
                                         !.items = acc.items]
                  ELSE [NoOutcome EXCEPT !.kind = "return Err", !.errors = acc.errors]
    /\ cpc' = "returned"
    /\ UNCHANGED <<call, acc, prefixerVars, renderVars, exitVars, reportVars, utilVars, fmtVars>>

NextCollect ==
    \/ HandleIntoIter
    \/ PartitionResultFold \/ PartitionResultReturn
    \/ HandleIterFold \/ HandleIterEnd
    \/ HandleIterOfRefsFold \/ HandleIterOfRefsEnd

SpecCollect == InitCollect /\ [][NextCollect]_vars

----------------------------------------------------------------------------
(* Properties of the collecting function and macros *)

\* the values of the Ok results, and of the Err results, of rs, in order
ValuesOf(rs, ok) ==
    LET sel == SelectSeq(rs, LAMBDA r : r.ok = ok)
    IN  [i \in 1..Len(sel) |-> sel[i].val]

\* the positions of rs that hold an Err
ErrsAt(rs) == {i \in 1..Len(rs) : ~rs[i].ok}

\* C18: partition_result returns Ok(v) exactly when no result is an Err, v
\* holding every Ok value in input order; otherwise Err(e), e holding every
\* Err value of the whole input in input order, never empty, and no Ok value.
C18_PartitionResult ==
    (call.fn = "partition_result" /\ cpc = "returned") =>
        IF ErrsAt(call.results) = {}
        THEN outcome = [NoOutcome EXCEPT !.kind = "Ok",
                                         !.oks = ValuesOf(call.results, TRUE)]
        ELSE /\ outcome = [NoOutcome EXCEPT !.kind = "Err",
                                            !.errors = ValuesOf(call.results, FALSE)]
             /\ outcome.errors # <<>>

\* an Ok, an Err, another Err: both errors are returned, the Ok is not
C18_Witness ==
    /\ call.fn = "partition_result" /\ cpc = "returned"
    /\ Len(call.results) = 3
    /\ call.results[1].ok /\ ~call.results[2].ok /\ ~call.results[3].ok
    /\ call.results[2].val # call.results[3].val
    /\ outcome.kind = "Err" /\ Len(outcome.errors) = 2 /\ outcome.oks = <<>>

\* C19: handle_iter! and handle_into_iter! evaluate to the vector of all Ok
\* values in input order when no result is an Err; otherwise the enclosing
\* function returns Err(variant) whose source holds every Err of the whole
\* input in input order: at least one, and later ones as well as the first.
C19_HandleIter ==
    (call.fn \in {"handle_iter", "handle_into_iter"} /\ cpc = "returned") =>
        IF ErrsAt(call.results) = {}
        THEN outcome = [NoOutcome EXCEPT !.kind = "value",
                                         !.oks = ValuesOf(call.results, TRUE)]
        ELSE /\ outcome = [NoOutcome EXCEPT !.kind = "return Err",
                                            !.errors = ValuesOf(call.results, FALSE)]
             /\ Len(outcome.errors) >= 1

\* handle_into_iter! over an Err, an Ok and a different Err
C19_Witness ==
    /\ call.fn = "handle_into_iter" /\ cpc = "returned"
    /\ Len(call.results) = 3
    /\ ~call.results[1].ok /\ call.results[2].ok /\ ~call.results[3].ok
    /\ call.results[1].val # call.results[3].val
    /\ outcome.kind = "return Err"
    /\ outcome.errors = <<call.results[1].val, call.results[3].val>>

\* the results that zip pairs with an item
Zipped == SubSeq(call.results, 1, ZipLen(call.results, call.items))

----------------------------------------------------------------------------
(* fmt: src/src/functions/fmt.rs                                           *)
(*                                                                         *)
(* The argument of fmt is a value of some type E: whether E implements     *)
(* Errgonomic, whether it implements Display, and the text each of the two *)
(* would write.  What fmt returns is Ok with the text written to the       *)
(* formatter, or Err(core::fmt::Error) with nothing written.               *)
(***************************************************************************)


FmtArgs == [errgonomic : BOOLEAN, display : BOOLEAN,
            etext : SeqsUpTo(Messages, MaxText), dtext : SeqsUpTo(Messages, MaxText)]

\* the traits `pub fn fmt<E>(..)` bounds E by: none, so inside the body
\* neither E: Errgonomic nor E: Display can be proved, whatever type the
\* caller instantiates E with
FmtBounds == {}

\* the impls with a method fmt that the probing of `(&&&wrapped).fmt` meets,
\* in the order of its autoderef steps from &&&AutoFmt<E> down to
\* AutoFmt<E>, each with the bound on T its impl asks for
FmtCandidates ==
    << [impl |-> "Errgonomic for &&AutoFmt<T>", needs |-> "Errgonomic"],
       [impl |-> "Display for &AutoFmt<T>",     needs |-> "Display"],
       [impl |-> "Fallback for AutoFmt<T>",     needs |-> "none"] >>

\* method resolution: the first candidate whose bound is provable where the
\* call is written
Resolve(bounds) ==
    LET applies(c) == c.needs = "none" \/ c.needs \in bounds
        k == CHOOSE i \in 1..Len(FmtCandidates) :
                 /\ applies(FmtCandidates[i])
                 /\ \A j \in 1..(i - 1) : ~applies(FmtCandidates[j])
    IN  FmtCandidates[k].impl

\* fmt(error, formatter): AutoFmt(error), then the method the call
\* `(&&&wrapped).fmt(formatter)` was resolved to
fmt(a) ==
    LET impl == Resolve(FmtBounds) IN
    IF impl = "Errgonomic for &&AutoFmt<T>" THEN [ok |-> TRUE, text |-> a.etext]
    ELSE IF impl = "Display for &AutoFmt<T>" THEN [ok |-> TRUE, text |-> a.dtext]
    ELSE [ok |-> FALSE, text |-> <<>>]

InitFmt ==
    /\ FmtIdle
    /\ PrefixerIdle /\ RenderIdle /\ ExitIdle /\ ReportIdle /\ CollectIdle
    /\ ufn = "fmt"
    /\ uarg \in FmtArgs
    /\ ures = <<>>
    /\ upc = "start"

CallFmt ==
    /\ ufn = "fmt" /\ upc = "start"
    /\ ures' = fmt(uarg)
    /\ upc' = "returned"
    /\ UNCHANGED <<ufn, uarg, prefixerVars, renderVars, exitVars, reportVars, collectVars, fmtVars>>

NextFmt == CallFmt

SpecFmt == InitFmt /\ [][NextFmt]_vars

\* C21: fmt formats with Errgonomic::fmt when the type of the error
\* implements Errgonomic, else with Display::fmt when it implements Display,
\* and returns core::fmt::Error only when it implements neither.
C21_FmtDispatch ==
    (ufn = "fmt" /\ upc = "returned") =>
        ures = IF uarg.errgonomic THEN [ok |-> TRUE, text |-> uarg.etext]
               ELSE IF uarg.display THEN [ok |-> TRUE, text |-> uarg.dtext]
               ELSE [ok |-> FALSE, text |-> <<>>]

----------------------------------------------------------------------------
(* get_root_source: src/src/functions/get_root_error.rs                    *)
(*                                                                         *)
(* ures is the local `source`; every turn of the action below is one turn  *)
(* of `while let Some(source_new) = source.source()`.                      *)
(***************************************************************************)

\* get_root_source(error), as the value it returns
RECURSIVE get_root_source(_)
get_root_source(e) ==
    IF Source(e) # <<>> THEN get_root_source(Source(e)[1]) ELSE e

InitRoot ==
    /\ FmtIdle
    /\ PrefixerIdle /\ RenderIdle /\ ExitIdle /\ ReportIdle /\ CollectIdle
    /\ ufn = "get_root_source"
    /\ uarg \in ReportErrors
    /\ ures = <<>>
    /\ upc = "start"

\* let mut source = error;
RootEnter ==
    /\ ufn = "get_root_source" /\ upc = "start"
    /\ ures' = uarg
    /\ upc' = "loop"
    /\ UNCHANGED <<ufn, uarg, prefixerVars, renderVars, exitVars, reportVars, collectVars, fmtVars>>

\* source.source() is Some(source_new): source = source_new
RootStep ==
    /\ ufn = "get_root_source" /\ upc = "loop"
    /\ Source(ures) # <<>>
    /\ ures' = Source(ures)[1]
    /\ UNCHANGED <<ufn, uarg, upc, prefixerVars, renderVars, exitVars, reportVars, collectVars, fmtVars>>

\* a loop left after its first test, whatever source.source() is
RootReturn_Early ==
    /\ ufn = "get_root_source" /\ upc = "loop"
    /\ upc' = "returned"
    /\ UNCHANGED <<ufn, uarg, ures, prefixerVars, renderVars, exitVars, reportVars, collectVars, fmtVars>>

\* source.source() is None: the loop ends and `source` is returned
RootReturn ==
    /\ ufn = "get_root_source" /\ upc = "loop"
    /\ Source(ures) = <<>>
    /\ upc' = "returned"
    /\ UNCHANGED <<ufn, uarg, ures, prefixerVars, renderVars, exitVars, reportVars, collectVars, fmtVars>>

NextRoot == RootEnter \/ RootStep \/ RootReturn

\* a call that has begun runs on: the loop takes its next turn
SpecRoot == InitRoot /\ [][NextRoot]_vars /\ WF_vars(NextRoot)

\* the errors reached from e by following source() links, e included
RECURSIVE ChainFrom(_)
ChainFrom(e) ==
    {e} \cup (IF e.source # <<>> THEN ChainFrom(e.source[1]) ELSE {})

\* what C22 says of a call that has returned
RootReturned ==
    upc = "returned" =>
        /\ ures.source = <<>>
        /\ ures \in ChainFrom(uarg)
        /\ uarg.source = <<>> => ures = uarg
        /\ get_root_source(ures) = ures

\* C22: get_root_source terminates on every finite chain; the error it
\* returns has no source, is reached from the argument by source() links,
\* is the argument itself when that has no source, and is its own root.
C22_RootSource == [](ufn = "get_root_source" => RootReturned) /\ <>(upc = "returned")

\* a chain of three links: the call has returned the third
C22_Witness ==
    /\ ufn = "get_root_source" /\ upc = "returned"
    /\ uarg.source # <<>> /\ uarg.source[1].source # <<>>
    /\ ures = uarg.source[1].source[1]

----------------------------------------------------------------------------
(* Further properties of the renderer *)

\* the tokens that open a child's lines
BlockPrefixes == {"  * ", "    "}

\* C23: an ErrVec without children renders as its message "encountered 0
\* errors" alone, one line with no bullet line and no child line after it,
\* and rendering it succeeds: through its own Display impl the line is the
\* message, through ErrorDisplayer the message after the marker every chain
\* link gets.
C23_EmptyErrVec ==
    (error = ErrVec_new(<<>>) /\ rpc # "start" /\ ffail = 0) =>
        /\ fres = "Ok"
        /\ out = (IF rpc = "ErrVec" THEN <<>> ELSE <<"- ">>)
                 \o <<"encountered 0 errors", NL>>
        /\ Len(Lines(out)) = 1
        /\ \A i \in 1..Len(out) : out[i] \notin BlockPrefixes

\* the Display impl of an ErrVec without children has run on a Formatter
\* that does not fail
C23_Witness ==
    /\ error = ErrVec_new(<<>>) /\ rpc = "ErrVec" /\ ffail = 0
    /\ fres = "Ok" /\ out # <<>>

\* the errors of the chain that starts at e, e first
RECURSIVE TopChain(_)
TopChain(e) == <<e>> \o (IF e.source # <<>> THEN TopChain(e.source[1]) ELSE <<>>)

\* C24: an ErrVec has no source: the chain walk ends at it, and in the
\* trace its header line is followed by the lines of its children's blocks
\* only, never by a further chain link at the ErrVec's own level.
C24_ErrVecEndsChain ==
    rpc = "ErrorDisplayer" =>
        LET chain == TopChain(error)
            tail == chain[Len(chain)]
            ls == Lines(out)
        IN  /\ \A i \in 1..Len(chain) :
                   chain[i].kind = "ErrVec" => (chain[i].source = <<>> /\ i = Len(chain))
            /\ tail.kind = "ErrVec" =>
                   /\ ls[Len(chain)] = <<"- ", "encountered " \o ToString(Len(tail.inner))
                                                \o " errors">>
                   /\ \A j \in (Len(chain) + 1)..Len(ls) :
                          ls[j] = <<>> \/ ls[j][1] \in BlockPrefixes

\* a chain link whose source is an ErrVec with a child, rendered
C24_Witness ==
    /\ rpc = "ErrorDisplayer"
    /\ error.kind = "chain" /\ error.source # <<>>
    /\ error.source[1].kind = "ErrVec" /\ error.source[1].inner # <<>>
    /\ Len(Lines(out)) > 2

\* the messages of the nodes of e in depth-first pre-order: a chain link
\* before its source, an ErrVec's header before its children, a child's
\* whole subtree before the next child's
RECURSIVE PreOrder(_)
PreOrder(e) ==
    IF e.kind = "ErrVec"
    THEN <<"encountered " \o ToString(Len(e.inner)) \o " errors">>
         \o Concat([i \in 1..Len(e.inner) |-> PreOrder(e.inner[i])])
    ELSE <<e.message>> \o (IF e.source # <<>> THEN PreOrder(e.source[1]) ELSE <<>>)

\* the messages of a rendering: its tokens other than line ends, markers and
\* prefixes
MessagesOf(text) == SelectSeq(text, LAMBDA t : t \notin ({NL, "- "} \cup BlockPrefixes))

\* the number of nodes of e
RECURSIVE NodeCount(_)
RECURSIVE NodesOf(_)
NodeCount(e) ==
    IF e.kind = "ErrVec" THEN 1 + NodesOf(e.inner)
    ELSE 1 + (IF e.source # <<>> THEN NodeCount(e.source[1]) ELSE 0)

\* the number of nodes of the errors of a vector
NodesOf(v) == IF v = <<>> THEN 0 ELSE NodeCount(Head(v)) + NodesOf(Tail(v))

\* C25: the rendering of an error tree, of whatever depth, is a finite text
\* that holds the message of every node exactly once, in depth-first
\* pre-order: as many messages as the tree has nodes, a chain link's before
\* its source's, an ErrVec's header before its children, a child's block
\* before the next child's.
C25_PreOrderOnce ==
    rpc # "start" =>
        /\ MessagesOf(out) = PreOrder(error)
        /\ Len(MessagesOf(out)) = NodeCount(error)

\* an ErrVec of two children, the first a chain of two links, rendered
C25_Witness ==
    /\ rpc = "ErrorDisplayer"
    /\ error.kind = "ErrVec" /\ Len(error.inner) = 2
    /\ error.inner[1].kind = "chain" /\ error.inner[1].source # <<>>
    /\ Len(MessagesOf(out)) = 4

\* what the rendering asked for writes when no write fails
FullText ==
    IF rpc = "ErrVec" THEN ErrVec_fmt(error) ELSE ErrorDisplayer_fmt(error)

\* C26: when a write to the Formatter fails while rendering, the outermost
\* call returns the error, what was written before the failing write stays
\* and nothing is written after it: no later chain link, no later child.
\* When no write fails the call returns Ok with the whole text.
C26_StopsAtFailure ==
    rpc # "start" =>
        IF ffail \in 1..Len(FullText)
        THEN fres = "Err" /\ out = SubSeq(FullText, 1, ffail - 1)
        ELSE fres = "Ok" /\ out = FullText

\* an ErrVec of two children whose rendering failed within the first
\* child's block
C26_Witness ==
    /\ rpc = "ErrorDisplayer"
    /\ error.kind = "ErrVec" /\ Len(error.inner) = 2
    /\ ffail = 5
    /\ fres = "Err" /\ Len(out) = 4

----------------------------------------------------------------------------
(* Further properties of Prefixer *)

\* C27: whatever writes and flushes were made, failing or not,
\* is_first_line never goes from false back to true, it is true exactly
\* while no write_all of a prefix has returned Ok, and the write_all of
\* first_line_prefix has returned Ok at most once.
C27_FirstLineOnce ==
    /\ [](/\ P.is_first_line <=> ~hist.prefixed
          /\ hist.firsts <= 1)
    /\ [][P'.is_first_line => P.is_first_line]_vars

\* the first write of first_line_prefix failed after its first byte, a later
\* one went through, and a second line has been started since
C27_Witness ==
    /\ hist.failed /\ hist.firsts = 1 /\ ~P.is_first_line
    /\ Len(sink) >= 3 /\ sink[1] = "*" /\ sink[2] = "*" /\ sink[3] = " "
    /\ Len(input) = 2 /\ input[1] = NL

\* C28: while no call has failed, needs_prefix is true exactly when no input
\* byte has been forwarded or the last one forwarded was '\n', and the last
\* bytes the sink took are content, never a prefix; a flush leaves both
\* flags and the sink's bytes as they were.
C28_NeedsPrefixAtLineStart ==
    /\ [](~hist.failed =>
            /\ P.needs_prefix <=> (input = <<>> \/ input[Len(input)] = NL)
            /\ hist.tail \in {"none", "content"}
            /\ input = <<>> => sink = <<>>
            /\ input # <<>> => (sink # <<>> /\ sink[Len(sink)] = input[Len(input)]))
    /\ [][last'.op = "flush" =>
            /\ prefixers' = prefixers /\ sink' = sink /\ input' = input
            /\ last'.flushes = 1]_vars

\* a flush right after a line was completed, with a next-line prefix pending
C28_Witness ==
    /\ ~hist.failed /\ last.op = "flush" /\ last.ok
    /\ input = <<"a", NL>> /\ sink = <<"*", " ", "a", NL>>
    /\ P.needs_prefix /\ ~P.is_first_line /\ P.next_line_prefix # <<>>

----------------------------------------------------------------------------
(* Further properties of the report functions *)

\* C29: write_to_named_temp_file is called only after the first line and the
\* blank line were both written to the writer; when either of these two
\* writes fails, writeln_error_to_writer_and_file returns that write's error
\* without calling write_to_named_temp_file, and no file is kept.
C29_PersistAfterBothLines ==
    ppc # "start" =>
        LET ev == report.events
            called == \E i \in DOMAIN ev : ev[i] = "write_to_named_temp_file"
        IN  /\ called =>
                  /\ Len(ev) >= 3 /\ ev[1] = "writeln! 1" /\ ev[2] = "writeln! 2"
                  /\ ev[3] = "write_to_named_temp_file"
                  /\ env.wfail \notin {1, 2}
                  /\ IsPrefixOf(TraceText(error) \o <<NL>>, report.primary)
            /\ env.wfail \in {1, 2} =>
                  /\ ~called
                  /\ report.blob = <<>>
                  /\ report.ret = [ok |-> FALSE, err |-> IoError(env.wfail)]
            /\ report.blob # <<>> => called

\* the blank line's write fails after the first line went through, where
\* persisting would have succeeded
C29_Witness ==
    /\ ppc = "writeln_error_to_writer_and_file"
    /\ env.wfail = 2 /\ ~env.partial /\ env.persist = "Ok"
    /\ report.events = <<"writeln! 1", "writeln! 2">>
    /\ report.primary = TraceText(error)
    /\ report.blob = <<>> /\ ~report.ret.ok
====
